---- MODULE Spec2Model ----
(***************************************************************************)
(* Model of the S3 file hierarchy service (AwsS3FileService, AwsS3Service  *)
(* and the rename endpoint of AwsS3FileController).                        *)
(*                                                                         *)
(* Strings are sequences of characters; a character is a TLA+ string.      *)
(* The output of generateUuid / generateRandomString and the upload ids    *)
(* handed out by the store are opaque one-character tokens "u1", "u2", ... *)
(* that were never produced before (no collision, which favours the code). *)
(* Row ids (gen_random_uuid) are the integers 1, 2, ...; 0 is null.        *)
(***************************************************************************)
EXTENDS Integers, Sequences, FiniteSets, TLC

VARIABLES s3File, objects, uploads, nextId, nextTok, ops, budget, last, flaky,
          inflight

vars == <<s3File, objects, uploads, nextId, nextTok, ops, budget, last, flaky,
          inflight>>

----------------------------------------------------------------------------
(* Bounds of the model *)

MaxId == 3
MaxTok == 2
PageSize == 2
MaxOps == 3
MaxFault == 3

(* Inputs the callers draw from *)

Slash == "/"
Dot == "."
FolderPaths == { <<"a">>, <<"/", "a", "/", "/", "a", "/">>, <<"/">> }
FileNames == { <<"a">>, <<"a", ".", "t">> }
MimeType == <<"text/plain">>

(* Values of the schema *)

NULL == 0
NoSize == -1
NoUpload == "none"
NoProgress == -1
FolderType == <<"folder">>
Bucket == "bucket"
Tokens == <<"u1", "u2", "u3", "u4", "u5", "u6", "u7", "u8">>
NoResponse == [Op |-> "none", Key |-> <<>>, ETag |-> <<>>]

----------------------------------------------------------------------------
(* String functions of the JavaScript runtime *)

EndsWith(s, c) == Len(s) > 0 /\ s[Len(s)] = c

StartsWith(s, p) == Len(p) <= Len(s) /\ SubSeq(s, 1, Len(p)) = p

DropLast(s) == SubSeq(s, 1, Len(s) - 1)

RECURSIVE Split(_, _)
Split(s, sep) ==
  IF \A i \in 1..Len(s) : s[i] # sep
    THEN <<s>>
    ELSE LET i == CHOOSE k \in 1..Len(s) :
                    s[k] = sep /\ \A j \in 1..(k - 1) : s[j] # sep
         IN  <<SubSeq(s, 1, i - 1)>> \o Split(SubSeq(s, i + 1, Len(s)), sep)

RECURSIVE Join(_, _)
Join(parts, sep) ==
  IF Len(parts) = 0 THEN <<>>
  ELSE IF Len(parts) = 1 THEN parts[1]
  ELSE parts[1] \o <<sep>> \o Join(Tail(parts), sep)

Pop(parts) == parts[Len(parts)]

RECURSIVE TrimLeadingSlashes(_)
TrimLeadingSlashes(s) ==
  IF Len(s) > 0 /\ s[1] = Slash THEN TrimLeadingSlashes(Tail(s)) ELSE s

RECURSIVE TrimTrailingSlashes(_)
TrimTrailingSlashes(s) ==
  IF EndsWith(s, Slash) THEN TrimTrailingSlashes(DropLast(s)) ELSE s

TrimSlashes(s) == TrimTrailingSlashes(TrimLeadingSlashes(s))

(* path.extname: from the last "." of the base name to the end; empty when *)
(* there is no "." or the only "." is the first character of the base name *)
extname(name) ==
  LET base == Pop(Split(name, Slash))
      dots == {i \in 1..Len(base) : base[i] = Dot}
  IN  IF dots = {} THEN <<>>
      ELSE LET i == CHOOSE k \in dots : \A j \in dots : j <= k
           IN  IF i = 1 THEN <<>> ELSE SubSeq(base, i, Len(base))

generateUuid(tok) == <<Tokens[tok]>>

generateRandomString(tok) == <<Tokens[tok]>>

----------------------------------------------------------------------------
(* The object store: objects is a function from key to body *)

Alphabet == <<".", "/", "a", "b", "t", "u1", "u2", "u3", "u4", "u5", "u6", "u7", "u8">>

CharRank(c) == CHOOSE i \in 1..Len(Alphabet) : Alphabet[i] = c

RECURSIVE KeyLess(_, _)
KeyLess(a, b) ==
  IF Len(b) = 0 THEN FALSE
  ELSE IF Len(a) = 0 THEN TRUE
  ELSE IF a[1] = b[1] THEN KeyLess(Tail(a), Tail(b))
  ELSE CharRank(a[1]) < CharRank(b[1])

PutObject(objs, key, body) ==
  [k \in (DOMAIN objs) \cup {key} |-> IF k = key THEN body ELSE objs[k]]

PutResponse(key, body) == [Op |-> "put", Key |-> key, ETag |-> body]

DeleteObjects(objs, keys) == [k \in (DOMAIN objs) \ keys |-> objs[k]]

(* ListObjectsV2: the first PageSize keys with the prefix, in key order *)
ListObjectsV2(objs, prefix) ==
  LET matching == {k \in DOMAIN objs : StartsWith(k, prefix)}
      page == {k \in matching :
                 Cardinality({j \in matching : KeyLess(j, k)}) < PageSize}
  IN  [Contents |-> page, IsTruncated |-> page # matching]

(* a deletion that stops after the first page of the listing *)
deleteFirstPage(objs, key, failAt, n) ==
  LET listResponse == ListObjectsV2(objs, key)
  IN  IF failAt = n + 1 THEN [objects |-> objs, failed |-> n + 1]
      ELSE IF listResponse.Contents = {} THEN [objects |-> objs, failed |-> 0]
      ELSE IF failAt = n + 2 THEN [objects |-> objs, failed |-> n + 2]
      ELSE [objects |-> DeleteObjects(objs, listResponse.Contents),
            failed |-> 0]

(* deleteObjectRecursively after n store calls; the call numbered failAt   *)
(* throws, and the error is thrown on to the caller                        *)
RECURSIVE deleteObjectRecursivelyFrom(_, _, _, _)
deleteObjectRecursivelyFrom(objs, key, failAt, n) ==
  LET listResponse == ListObjectsV2(objs, key)
  IN  IF failAt = n + 1 THEN [objects |-> objs, failed |-> n + 1]
      ELSE IF listResponse.Contents = {} THEN [objects |-> objs, failed |-> 0]
      ELSE IF failAt = n + 2 THEN [objects |-> objs, failed |-> n + 2]
      ELSE LET rest == DeleteObjects(objs, listResponse.Contents)
           IN  IF listResponse.IsTruncated
                 THEN deleteObjectRecursivelyFrom(rest, key, failAt, n + 2)
                 ELSE [objects |-> rest, failed |-> 0]

deleteObjectRecursively(objs, key, failAt) ==
  deleteObjectRecursivelyFrom(objs, key, failAt, 0)

----------------------------------------------------------------------------
(* The index: s3File is the set of rows of the table *)

Row(id, name, type, size, s3Key, s3Response, parentId, uploadId, uploadProgress) ==
  [id |-> id, name |-> name, type |-> type, size |-> size,
   s3Bucket |-> Bucket, s3Key |-> s3Key, s3Response |-> s3Response,
   parentId |-> parentId, uploadId |-> uploadId,
   uploadProgress |-> uploadProgress]

RowOf(files, id) == CHOOSE f \in files : f.id = id

Exists(files, id) == \E f \in files : f.id = id

(* getFilePathString: walks parentId to a root; throws when a row is       *)
(* missing.  fuel bounds the walk; a walk that exhausts it never returns.  *)
(* a walk that puts the names in leaf-to-root order *)
RECURSIVE PathWalkLeafFirst(_, _, _)
PathWalkLeafFirst(files, fileId, fuel) ==
  IF ~Exists(files, fileId) THEN [ok |-> FALSE, path |-> <<>>]
  ELSE IF fuel = 0 THEN [ok |-> FALSE, path |-> <<>>]
  ELSE LET file == RowOf(files, fileId)
       IN  IF file.parentId # NULL
             THEN LET up == PathWalkLeafFirst(files, file.parentId, fuel - 1)
                  IN  [ok |-> up.ok, path |-> file.name \o <<Slash>> \o up.path]
             ELSE [ok |-> TRUE, path |-> file.name]

RECURSIVE PathWalk(_, _, _)
PathWalk(files, fileId, fuel) ==
  IF ~Exists(files, fileId) THEN [ok |-> FALSE, path |-> <<>>]
  ELSE IF fuel = 0 THEN [ok |-> FALSE, path |-> <<>>]
  ELSE LET file == RowOf(files, fileId)
       IN  IF file.parentId # NULL
             THEN LET up == PathWalk(files, file.parentId, fuel - 1)
                  IN  [ok |-> up.ok, path |-> up.path \o <<Slash>> \o file.name]
             ELSE [ok |-> TRUE, path |-> file.name]

getFilePathString(files, fileId) ==
  PathWalk(files, fileId, Cardinality(files))

(* a deletion that stops at the row itself *)
deleteRowOnly(files, fileId) == {f \in files : f.id # fileId}

RECURSIVE deleteFileRecursively(_, _)
deleteFileRecursively(files, fileId) ==
  LET remaining == {f \in files : f.id # fileId}
      filesInFolder == {f.id : f \in {g \in remaining : g.parentId = fileId}}
      Step[todo \in SUBSET filesInFolder] ==
        IF todo = {} THEN remaining
        ELSE LET c == CHOOSE x \in todo : TRUE
             IN  deleteFileRecursively(Step[todo \ {c}], c)
  IN  Step[filesInFolder]

----------------------------------------------------------------------------
(* Record of the last request: its arguments, whether it returned without  *)
(* an error, what it returned, the store writes it issued in order, the    *)
(* row its lookup matched, the parent and key it resolved, the part list   *)
(* it sent to the store, whether it never returned, the ids of the rows    *)
(* and the keys of the objects it deleted, whether it asked the store for  *)
(* a listing, whether it was given both a parentId and a path, which of    *)
(* its store calls failed (0: none), and what the store replied.           *)

NoArg == [name |-> <<>>, parentId |-> NULL, path |-> <<>>, overwrite |-> FALSE,
          fileId |-> NULL, uploadId |-> NoUpload, parts |-> <<>>,
          partNumber |-> 0, uploadProgress |-> NoProgress]

Last(op, arg, ok, ret, puts, existing, parent, key) ==
  [op |-> op, arg |-> IF ok THEN arg ELSE NoArg, ok |-> ok, ret |-> ret,
   puts |-> puts, existing |-> existing, parent |-> IF ok THEN parent ELSE NULL,
   key |-> key, sent |-> <<>>, diverged |-> FALSE, removed |-> {}, dels |-> {},
   listed |-> FALSE, both |-> FALSE, failed |-> 0, reply |-> NoResponse]

(* The requests in flight: per caller, the request whose step 1 is done   *)
(* and whose steps 2 to 4 are still to come                                *)
Procs == {1, 2}

NoRequest ==
  [stage |-> "idle", name |-> <<>>, parentId |-> NULL, overwrite |-> FALSE,
   existing |-> NULL, s3Key |-> <<>>, body |-> <<>>]

(* The ids a caller may pass: those of the rows, and one that has no row *)
Ids == {f.id : f \in s3File} \cup {nextId}

(* Where a caller may ask to place a file: in the root, under a row, under *)
(* a path, or (wrongly) under both a row and a path                        *)
Locations ==
  {[parentId |-> p, path |-> <<>>] : p \in {NULL} \cup Ids}
    \cup {[parentId |-> p, path |-> q] : p \in {NULL} \cup Ids, q \in FolderPaths}

(* The payload of the k-th request of a run is k bytes long *)
Payload(k) == [i \in 1..k |-> k]

(* Every request counts against the budget of the model *)
Request ==
  /\ ops < budget
  /\ ops' = ops + 1
  /\ budget' = budget
  /\ flaky' = flaky
  /\ inflight' = inflight

(* The store call of a request that fails, counted from 1; 0 when none     *)
(* does.  Store calls fail only where the store is flaky.                  *)
Faults == IF flaky THEN 0..MaxFault ELSE {0}

(* A world is the part of the state one request works on *)
World(files, objs, id, puts) ==
  [files |-> files, objects |-> objs, nextId |-> id, puts |-> puts]

----------------------------------------------------------------------------
(* AwsS3FileService.createFolder: the set of outcomes of the loop over the *)
(* remaining folder names, findFirst returning any matching row.           *)

RECURSIVE createFolderLoop(_, _, _)
createFolderLoop(w, folderNames, parentId) ==
  IF Len(folderNames) = 0
    THEN {[w |-> w, ok |-> TRUE, ret |-> parentId]}
  ELSE IF Len(Head(folderNames)) = 0
    THEN createFolderLoop(w, Tail(folderNames), parentId)
  ELSE
    LET name == Head(folderNames)
        existingFolder ==
          {f \in w.files : /\ f.name = name
                           /\ f.type = FolderType
                           /\ (parentId = NULL \/ f.parentId = parentId)}
    IN  IF existingFolder # {}
          THEN UNION {createFolderLoop(w, Tail(folderNames), f.id) :
                        f \in existingFolder}
          ELSE
            LET up == IF parentId # NULL
                        THEN getFilePathString(w.files, parentId)
                        ELSE [ok |-> TRUE, path |-> <<>>]
                s3Key == IF parentId # NULL
                           THEN up.path \o <<Slash>> \o name
                           ELSE name
                folder == Row(w.nextId, name, FolderType, NoSize, s3Key,
                              PutResponse(s3Key \o <<Slash>>, <<>>),
                              parentId, NoUpload, NoProgress)
                w2 == World(w.files \cup {folder},
                            PutObject(w.objects, s3Key \o <<Slash>>, <<>>),
                            w.nextId + 1,
                            Append(w.puts, [Key |-> s3Key \o <<Slash>>,
                                            Body |-> <<>>]))
            IN  IF ~up.ok
                  THEN {[w |-> w, ok |-> FALSE, ret |-> NULL]}
                  ELSE createFolderLoop(w2, Tail(folderNames), folder.id)

createFolder(w, path, parentId) ==
  createFolderLoop(w, Split(TrimSlashes(path), Slash), parentId)

CreateFolder ==
  \E path \in FolderPaths, parentId \in {NULL} \cup Ids :
    /\ ops < budget
    /\ \E o \in createFolder(World(s3File, objects, nextId, <<>>), path, parentId) :
      /\ Request
      /\ o.w.nextId <= MaxId + 1
      /\ s3File' = o.w.files
      /\ objects' = o.w.objects
      /\ nextId' = o.w.nextId
      /\ last' = Last("createFolder",
                      [NoArg EXCEPT !.path = path, !.parentId = parentId],
                      o.ok, o.ret, o.w.puts, NULL, parentId, <<>>)
      /\ UNCHANGED <<uploads, nextTok>>

----------------------------------------------------------------------------
(* AwsS3FileService.uploadFile *)

(* what step 1 found when it found no row *)
NoFile == [id |-> NULL, s3Key |-> <<>>]

(* step 1: what findFirst may return for a name under a parent (id and     *)
(* s3Key of any matching row); no lookup is made for a request with no     *)
(* name                                                                    *)
findFirstByName(files, name0, parentId) ==
  LET matches == IF Len(name0) > 0
                   THEN {f \in files :
                           /\ f.name = name0
                           /\ f.s3Bucket = Bucket
                           /\ (parentId = NULL \/ f.parentId = parentId)}
                   ELSE {}
  IN  IF matches = {} THEN {NoFile}
      ELSE {[id |-> f.id, s3Key |-> f.s3Key] : f \in matches}

(* The failure of an upload: 0 none, 1 the store write of step 3 throws,   *)
(* 2 the index write of step 4 throws.                                     *)
UploadFaults == IF flaky THEN {0, 1, 2} ELSE {0}

(* an upload that writes the row first and the object second *)
indexThenStore(before, stored, written, fault) ==
  IF fault = 2 THEN before
  ELSE IF fault = 1
    THEN World(written.files, before.objects, written.nextId, before.puts)
  ELSE written

(* steps 3 and 4: the world a request leaves, of the world before step 3,  *)
(* the world with the object stored and the world with the row written too *)
storeThenIndex(before, stored, written, fault) ==
  IF fault = 1 THEN before
  ELSE IF fault = 2 THEN stored
  ELSE written

(* steps 2 to 4 with a lookup made anew when they start *)
lookedUpAgain(files, name0, parentId, seen) ==
  CHOOSE e \in findFirstByName(files, name0, parentId) : TRUE

(* steps 2 to 4 work on the existingFile step 1 returned: the table is not *)
(* read again                                                              *)
existingFile(files, name0, parentId, seen) == seen

(* steps 2 to 4, once the parent folder is known and step 1 is done.  The  *)
(* update of step 4 throws when the row it is to update is gone.           *)
uploadFileAfterLookup(w, tok1, paramsName, body, parentId, overwrite, seen, fault) ==
  LET found == existingFile(w.files, paramsName, parentId, seen)
      existing == found.id
      up == IF parentId # NULL
              THEN getFilePathString(w.files, parentId)
              ELSE [ok |-> TRUE, path |-> <<>>]
      Under(n) == IF parentId # NULL THEN up.path \o <<Slash>> \o n ELSE n
      Finish(name, s3Key, tok2, threw) ==
        IF threw
          THEN [w |-> w, tok |-> tok2, ok |-> FALSE, ret |-> NULL,
                existing |-> existing, key |-> <<>>, failed |-> 0]
        ELSE
          LET output == PutResponse(s3Key, body)
              objs == PutObject(w.objects, s3Key, body)
              puts == Append(w.puts, [Key |-> s3Key, Body |-> body])
              updating == existing # NULL /\ overwrite
              gone == updating /\ ~Exists(w.files, existing)
              thrown == IF fault = 0 /\ gone THEN 2 ELSE fault
              stored == World(w.files, objs, w.nextId, puts)
              written ==
                IF updating
                  THEN World({IF f.id = existing
                                THEN [f EXCEPT !.type = MimeType,
                                               !.size = Len(body),
                                               !.s3Response = output]
                                ELSE f : f \in w.files},
                             objs, w.nextId, puts)
                  ELSE World(w.files \cup
                               {Row(w.nextId, paramsName, MimeType,
                                    Len(body), s3Key, output, parentId,
                                    NoUpload, NoProgress)},
                             objs, w.nextId + 1, puts)
          IN  [w |-> storeThenIndex(w, stored, written, thrown),
               tok |-> tok2, ok |-> thrown = 0,
               ret |-> IF thrown # 0 THEN NULL
                       ELSE IF updating THEN existing ELSE w.nextId,
               existing |-> existing, key |-> s3Key, failed |-> fault]
  IN  IF existing # NULL
        THEN IF overwrite
               THEN Finish(paramsName, found.s3Key, tok1, FALSE)
               ELSE LET ext == extname(paramsName)
                        name ==
                          IF ext = <<>>
                            THEN paramsName \o generateRandomString(tok1)
                            ELSE SubSeq(paramsName, 1, Len(paramsName) - Len(ext))
                                   \o generateRandomString(tok1) \o ext
                    IN  Finish(name, Under(name), tok1 + 1, ~up.ok)
        ELSE Finish(paramsName, Under(paramsName), tok1, ~up.ok)

(* steps 1 to 4, once the parent folder is known *)
uploadFileSteps(w, tok, name0, body, parentId, overwrite, fault) ==
  LET tok1 == IF Len(name0) > 0 THEN tok ELSE tok + 1
      paramsName == IF Len(name0) > 0 THEN name0 ELSE generateUuid(tok)
  IN  {uploadFileAfterLookup(w, tok1, paramsName, body, parentId, overwrite,
                             seen, fault) :
         seen \in findFirstByName(w.files, name0, parentId)}

(* a validation that lets every request through *)
neverBoth(parentId, path) == FALSE

(* params.path && params.parentId *)
pathAndParentId(parentId, path) == Len(path) > 0 /\ parentId # NULL

uploadFile(w, tok, name0, body, parentId, path, overwrite, fault) ==
  IF pathAndParentId(parentId, path)
    THEN {[w |-> w, tok |-> tok, ok |-> FALSE, ret |-> NULL,
           existing |-> NULL, key |-> <<>>, failed |-> 0,
           parent |-> parentId]}
  ELSE IF Len(path) > 0
    THEN UNION {{[r EXCEPT !.parent = o.ret] :
                    r \in {[x \in (DOMAIN s) \cup {"parent"} |->
                              IF x = "parent" THEN NULL ELSE s[x]] :
                             s \in uploadFileSteps(o.w, tok, name0, body,
                                                   o.ret, overwrite, fault)}} :
                  o \in createFolder(w, path, NULL)}
  ELSE {[x \in (DOMAIN s) \cup {"parent"} |->
           IF x = "parent" THEN parentId ELSE s[x]] :
          s \in uploadFileSteps(w, tok, name0, body, parentId, overwrite,
                                fault)}

UploadFile ==
  \E name \in FileNames \cup {<<>>}, at \in Locations, overwrite \in BOOLEAN,
     fault \in UploadFaults :
    /\ ops < budget
    /\ \E o \in uploadFile(World(s3File, objects, nextId, <<>>), nextTok,
                        name, Payload(ops + 1), at.parentId, at.path, overwrite,
                        fault) :
      /\ Request
      /\ o.w.nextId <= MaxId + 1
      /\ o.tok <= MaxTok + 1
      /\ s3File' = o.w.files
      /\ objects' = o.w.objects
      /\ nextId' = o.w.nextId
      /\ nextTok' = o.tok
      /\ last' = [Last("uploadFile",
                       [NoArg EXCEPT !.name = name, !.parentId = at.parentId,
                                     !.path = at.path, !.overwrite = overwrite],
                       o.ok, o.ret, o.w.puts, o.existing, o.parent, o.key)
                    EXCEPT !.both = (at.parentId # NULL /\ at.path # <<>>),
                           !.failed = o.failed]
      /\ UNCHANGED uploads

(* Two requests at once: step 1 of a request (no path given) and its steps *)
(* 2 to 4 are separate steps, and steps of other requests may come between *)
(* them.                                                                   *)
UploadFileLookup ==
  \E p \in Procs, name \in FileNames, parentId \in {NULL} \cup Ids,
     overwrite \in BOOLEAN :
    \E seen \in findFirstByName(s3File, name, parentId) :
      /\ inflight[p].stage = "idle"
      /\ ops < budget
      /\ ops' = ops + 1
      /\ inflight' = [inflight EXCEPT ![p] =
                        [stage |-> "found", name |-> name,
                         parentId |-> parentId, overwrite |-> overwrite,
                         existing |-> seen.id, s3Key |-> seen.s3Key,
                         body |-> Payload(ops + 1)]]
      /\ UNCHANGED <<s3File, objects, uploads, nextId, nextTok, budget, last,
                     flaky>>

UploadFileWrite ==
  \E p \in Procs :
    LET r == inflight[p]
        o == uploadFileAfterLookup(World(s3File, objects, nextId, <<>>),
                                   nextTok, r.name, r.body, r.parentId,
                                   r.overwrite,
                                   [id |-> r.existing, s3Key |-> r.s3Key], 0)
    IN  /\ r.stage = "found"
        /\ o.w.nextId <= MaxId + 1
        /\ o.tok <= MaxTok + 1
        /\ s3File' = o.w.files
        /\ objects' = o.w.objects
        /\ nextId' = o.w.nextId
        /\ nextTok' = o.tok
        /\ last' = Last("uploadFile",
                        [NoArg EXCEPT !.name = r.name, !.parentId = r.parentId,
                                      !.overwrite = r.overwrite],
                        o.ok, o.ret, o.w.puts, o.existing, r.parentId, o.key)
        /\ inflight' = [inflight EXCEPT ![p] = NoRequest]
        /\ UNCHANGED <<uploads, ops, budget, flaky>>

----------------------------------------------------------------------------
(* AwsS3FileController.renameFile: prisma update of the name alone; the    *)
(* update throws when no row has the id.                                   *)

RenameNames == { <<"b">> }

(* a rename that also moves the key to the new name *)
renameAndRekey(files, fileId, name) ==
  {IF f.id = fileId THEN [f EXCEPT !.name = name, !.s3Key = name] ELSE f :
     f \in files}

renameFile(files, fileId, name) ==
  {IF f.id = fileId THEN [f EXCEPT !.name = name] ELSE f : f \in files}

RenameFile ==
  \E fileId \in Ids, name \in RenameNames :
    /\ Request
    /\ Exists(s3File, fileId)
    /\ s3File' = renameFile(s3File, fileId, name)
    /\ last' = Last("renameFile",
                    [NoArg EXCEPT !.fileId = fileId, !.name = name],
                    TRUE, fileId, <<>>, NULL, NULL, <<>>)
    /\ UNCHANGED <<objects, uploads, nextId, nextTok>>

----------------------------------------------------------------------------
(* AwsS3FileService.deleteFile *)

(* a deletion that removes the rows before it turns to the store *)
deleteFileIndexFirst(files, objs, fileId, failAt) ==
  LET file == RowOf(files, fileId)
      store == deleteObjectRecursively(objs, file.s3Key, failAt)
  IN  [ok |-> store.failed = 0,
       failed |-> store.failed,
       objects |-> store.objects,
       files |-> deleteFileRecursively(files, fileId)]

deleteFile(files, objs, fileId, failAt) ==
  LET file == RowOf(files, fileId)
      store == deleteObjectRecursively(objs, file.s3Key, failAt)
  IN  [ok |-> store.failed = 0,
       failed |-> store.failed,
       objects |-> store.objects,
       files |-> IF store.failed = 0
                   THEN deleteFileRecursively(files, fileId)
                   ELSE files]

DeleteFile ==
  \E fileId \in Ids, failAt \in Faults :
    /\ Request
    /\ Exists(s3File, fileId)
    /\ LET o == deleteFile(s3File, objects, fileId, failAt)
       IN  /\ s3File' = o.files
           /\ objects' = o.objects
           /\ last' = [Last("deleteFile", [NoArg EXCEPT !.fileId = fileId],
                            o.ok, NULL, <<>>, NULL, NULL,
                            RowOf(s3File, fileId).s3Key)
                         EXCEPT !.removed = {f.id : f \in s3File \ o.files},
                                !.dels = (DOMAIN objects) \ (DOMAIN o.objects),
                                !.listed = TRUE,
                                !.failed = o.failed]
    /\ UNCHANGED <<uploads, nextId, nextTok>>

----------------------------------------------------------------------------
(* Multipart uploads.  The store keeps, per upload id, the key, the parts  *)
(* received (part number -> bytes) and whether the upload is pending.      *)
(* The ETag of a part stands for its bytes.                                *)

PartNumbers == {1, 2}
(* uploadProgress is any number (IsNumber is its only validation) *)
ProgressHints == {50, 100, 150}

Part(etag, partNumber) == [ETag |-> etag, PartNumber |-> partNumber]

Pending(ups, uploadId) ==
  uploadId \in DOMAIN ups /\ ups[uploadId].Status = "pending"

RECURSIVE Assemble(_)
Assemble(parts) ==
  IF Len(parts) = 0 THEN <<>> ELSE Head(parts).ETag \o Assemble(Tail(parts))

(* CompleteMultipartUpload is accepted for a pending upload and a          *)
(* non-empty list of its parts in ascending part number order              *)
StoreAccepts(ups, uploadId, parts) ==
  /\ Pending(ups, uploadId)
  /\ Len(parts) > 0
  /\ \A i \in 1..Len(parts) :
       /\ parts[i].PartNumber \in DOMAIN ups[uploadId].Parts
       /\ ups[uploadId].Parts[parts[i].PartNumber] = parts[i].ETag
  /\ \A i \in 1..(Len(parts) - 1) : parts[i].PartNumber < parts[i + 1].PartNumber

CompleteResponse(key, parts) ==
  [Op |-> "complete", Key |-> key, ETag |-> Assemble(parts)]

generateS3Key(files, tok, name, parentId, path) ==
  LET leaf == generateUuid(tok) \o extname(name)
      up == IF parentId # NULL
              THEN getFilePathString(files, parentId)
              ELSE [ok |-> TRUE, path |-> <<>>]
  IN  [ok |-> up.ok,
       s3Key |-> IF parentId # NULL THEN up.path \o <<Slash>> \o leaf
                 ELSE IF Len(path) > 0 THEN path \o <<Slash>> \o leaf
                 ELSE leaf]

NewUpload(key) ==
  [Key |-> key, Parts |-> [n \in {} |-> <<>>], Status |-> "pending"]

(* a creation that writes the row before it asks the store for an upload *)
createMultipartUploadRowFirst(files, ups, id, tok, name, size, parentId, path, failAt) ==
  LET k == generateS3Key(files, tok, name, parentId, path)
      uploadId == Tokens[tok + 1]
      stored == k.ok /\ failAt # 1
  IN  [ok |-> stored,
       failed |-> IF k.ok /\ failAt = 1 THEN 1 ELSE 0,
       key |-> IF k.ok THEN k.s3Key ELSE <<>>,
       files |-> IF k.ok
                   THEN files \cup
                          {Row(id, name, MimeType, size, k.s3Key, NoResponse,
                               parentId, IF stored THEN uploadId ELSE NoUpload, 0)}
                   ELSE files,
       uploads |-> IF stored
                     THEN [u \in (DOMAIN ups) \cup {uploadId} |->
                             IF u = uploadId THEN NewUpload(k.s3Key) ELSE ups[u]]
                     ELSE ups]

(* step 1 the key, step 2 the store's upload id, step 3 the row; failAt = 1 *)
(* when the store call throws                                              *)
createMultipartUpload(files, ups, id, tok, name, size, parentId, path, failAt) ==
  LET k == generateS3Key(files, tok, name, parentId, path)
      uploadId == Tokens[tok + 1]
      stored == k.ok /\ failAt # 1
  IN  [ok |-> stored,
       failed |-> IF k.ok /\ failAt = 1 THEN 1 ELSE 0,
       key |-> IF k.ok THEN k.s3Key ELSE <<>>,
       files |-> IF stored
                   THEN files \cup
                          {Row(id, name, MimeType, size, k.s3Key, NoResponse,
                               parentId, uploadId, 0)}
                   ELSE files,
       uploads |-> IF stored
                     THEN [u \in (DOMAIN ups) \cup {uploadId} |->
                             IF u = uploadId THEN NewUpload(k.s3Key) ELSE ups[u]]
                     ELSE ups]

CreateMultipartUpload ==
  \E name \in FileNames, at \in Locations, failAt \in Faults \cap {0, 1} :
    LET o == createMultipartUpload(s3File, uploads, nextId, nextTok, name,
                                   ops + 1, at.parentId, at.path, failAt)
        created == o.files # s3File
    IN  /\ Request
        /\ created => nextId <= MaxId
        /\ o.ok => nextTok + 1 <= MaxTok
        /\ uploads' = o.uploads
        /\ s3File' = o.files
        /\ nextId' = IF created THEN nextId + 1 ELSE nextId
        /\ nextTok' = IF o.ok THEN nextTok + 2 ELSE nextTok
        /\ last' = [Last("createMultipartUpload",
                         [NoArg EXCEPT !.name = name, !.parentId = at.parentId,
                                       !.path = at.path],
                         o.ok, IF o.ok THEN nextId ELSE NULL, <<>>, NULL,
                         at.parentId, o.key)
                      EXCEPT !.failed = o.failed]
        /\ UNCHANGED objects

(* The upload ids a caller may pass: those the store handed out *)
UploadIds == DOMAIN uploads

HasUpload(files, uploadId) == \E f \in files : f.uploadId = uploadId

RowOfUpload(files, uploadId) == CHOOSE f \in files : f.uploadId = uploadId

(* what UploadPartCommand is given *)
PartSent(bucket, key, uploadId, partNumber, body) ==
  [Bucket |-> bucket, Key |-> key, UploadId |-> uploadId,
   PartNumber |-> partNumber, Body |-> body]

(* an upload of a part that derives the progress from the parts received *)
uploadPartCountingProgress(files, ups, uploadId, uploadProgress, partNumber, body, failAt) ==
  LET file == RowOfUpload(files, uploadId)
      accepted == Pending(ups, uploadId) /\ failAt # 1
  IN  [ok |-> accepted,
       failed |-> IF failAt = 1 THEN 1 ELSE 0,
       sent |-> <<PartSent(file.s3Bucket, file.s3Key, uploadId, partNumber, body)>>,
       reply |-> IF accepted THEN Part(body, partNumber) ELSE NoResponse,
       files |-> (files \ {file}) \cup
                   {[file EXCEPT !.uploadProgress =
                       50 * Cardinality(DOMAIN ups[uploadId].Parts)]},
       uploads |-> IF accepted
                     THEN [ups EXCEPT ![uploadId].Parts =
                             [n \in (DOMAIN @) \cup {partNumber} |->
                                IF n = partNumber THEN body ELSE @[n]]]
                     ELSE ups]

(* the row is updated with the caller's progress, then the part is sent to *)
(* the store; failAt = 1 when the store call throws                        *)
uploadPart(files, ups, uploadId, uploadProgress, partNumber, body, failAt) ==
  LET file == RowOfUpload(files, uploadId)
      accepted == Pending(ups, uploadId) /\ failAt # 1
  IN  [ok |-> accepted,
       failed |-> IF failAt = 1 THEN 1 ELSE 0,
       sent |-> <<PartSent(file.s3Bucket, file.s3Key, uploadId, partNumber, body)>>,
       reply |-> IF accepted THEN Part(body, partNumber) ELSE NoResponse,
       files |-> (files \ {file}) \cup
                   {[file EXCEPT !.uploadProgress = uploadProgress]},
       uploads |-> IF accepted
                     THEN [ups EXCEPT ![uploadId].Parts =
                             [n \in (DOMAIN @) \cup {partNumber} |->
                                IF n = partNumber THEN body ELSE @[n]]]
                     ELSE ups]

UploadPart ==
  \E uploadId \in UploadIds, uploadProgress \in ProgressHints,
     partNumber \in PartNumbers, failAt \in Faults \cap {0, 1} :
    /\ Request
    /\ HasUpload(s3File, uploadId)
    /\ LET file == RowOfUpload(s3File, uploadId)
                  o == uploadPart(s3File, uploads, uploadId, uploadProgress,
                                  partNumber, Payload(ops + 1), failAt)
              IN  /\ s3File' = o.files
                  /\ uploads' = o.uploads
                  /\ last' = [Last("uploadPart", NoArg, o.ok, file.id, <<>>,
                                   file.id, NULL, file.s3Key)
                                EXCEPT !.arg = [NoArg EXCEPT
                                                  !.uploadId = uploadId,
                                                  !.partNumber = partNumber,
                                                  !.uploadProgress = uploadProgress],
                                       !.sent = o.sent,
                                       !.reply = o.reply,
                                       !.failed = o.failed]
    /\ UNCHANGED <<objects, nextId, nextTok>>

(* The part lists a caller may pass: lists without repetition of the parts *)
(* the store returned for the upload, in any order                         *)
PartLists(uploadId) ==
  IF uploadId \notin DOMAIN uploads THEN {<<>>}
  ELSE LET got == {Part(uploads[uploadId].Parts[n], n) :
                     n \in DOMAIN uploads[uploadId].Parts}
       IN  {<<>>} \cup {<<p>> : p \in got}
             \cup {<<pq[1], pq[2]>> : pq \in {x \in got \X got : x[1] # x[2]}}

(* a part list handed over back to front *)
ReversedParts(parts) == [i \in 1..Len(parts) |-> parts[Len(parts) + 1 - i]]

(* what the service hands to AwsS3Service.completeMultipartUpload *)
ForwardedParts(parts) == parts

(* a completion that clears the upload id of the row *)
completeAndClearUploadId(files, objs, ups, uploadId, parts) ==
  LET file == RowOfUpload(files, uploadId)
      sent == ForwardedParts(parts)
      accepted == StoreAccepts(ups, uploadId, sent)
      response == CompleteResponse(file.s3Key, sent)
  IN  [ok |-> accepted,
       sent |-> sent,
       objects |-> IF accepted
                     THEN PutObject(objs, file.s3Key, response.ETag)
                     ELSE objs,
       uploads |-> IF accepted
                     THEN [ups EXCEPT ![uploadId].Status = "completed"]
                     ELSE ups,
       files |-> IF accepted
                   THEN (files \ {file}) \cup
                          {[file EXCEPT !.s3Response = response,
                                        !.uploadProgress = 100,
                                        !.uploadId = NoUpload]}
                   ELSE files]

completeMultipartUpload(files, objs, ups, uploadId, parts) ==
  LET file == RowOfUpload(files, uploadId)
      sent == ForwardedParts(parts)
      accepted == StoreAccepts(ups, uploadId, sent)
      response == CompleteResponse(file.s3Key, sent)
  IN  [ok |-> accepted,
       sent |-> sent,
       objects |-> IF accepted
                     THEN PutObject(objs, file.s3Key, response.ETag)
                     ELSE objs,
       uploads |-> IF accepted
                     THEN [ups EXCEPT ![uploadId].Status = "completed"]
                     ELSE ups,
       files |-> IF accepted
                   THEN (files \ {file}) \cup
                          {[file EXCEPT !.s3Response = response,
                                        !.uploadProgress = 100]}
                   ELSE files]

CompleteMultipartUpload ==
  \E uploadId \in UploadIds :
    \E parts \in PartLists(uploadId) :
      /\ Request
      /\ HasUpload(s3File, uploadId)
      /\ LET o == completeMultipartUpload(s3File, objects, uploads,
                                                 uploadId, parts)
                    file == RowOfUpload(s3File, uploadId)
                IN  /\ s3File' = o.files
                    /\ objects' = o.objects
                    /\ uploads' = o.uploads
                    /\ last' = [Last("completeMultipartUpload",
                                     [NoArg EXCEPT !.uploadId = uploadId,
                                                   !.parts = parts],
                                     o.ok, file.id, <<>>, file.id, NULL,
                                     file.s3Key)
                                  EXCEPT !.sent = o.sent]
      /\ UNCHANGED <<nextId, nextTok>>

(* an abort that also deletes the row of the upload *)
abortAndDeleteRow(files, ups, uploadId, failAt) ==
  LET accepted == Pending(ups, uploadId) /\ failAt # 1
  IN  [ok |-> accepted,
       failed |-> IF failAt = 1 THEN 1 ELSE 0,
       files |-> IF accepted THEN files \ {RowOfUpload(files, uploadId)}
                 ELSE files,
       uploads |-> IF accepted THEN [ups EXCEPT ![uploadId].Status = "aborted"]
                   ELSE ups]

(* failAt = 1 when the store call throws *)
abortMultipartUpload(files, ups, uploadId, failAt) ==
  LET accepted == Pending(ups, uploadId) /\ failAt # 1
  IN  [ok |-> accepted,
       failed |-> IF failAt = 1 THEN 1 ELSE 0,
       files |-> files,
       uploads |-> IF accepted THEN [ups EXCEPT ![uploadId].Status = "aborted"]
                   ELSE ups]

AbortMultipartUpload ==
  \E uploadId \in UploadIds, failAt \in Faults \cap {0, 1} :
    /\ Request
    /\ HasUpload(s3File, uploadId)
    /\ LET file == RowOfUpload(s3File, uploadId)
                  o == abortMultipartUpload(s3File, uploads, uploadId, failAt)
              IN  /\ uploads' = o.uploads
                  /\ s3File' = o.files
                  /\ last' = [Last("abortMultipartUpload",
                                   [NoArg EXCEPT !.uploadId = uploadId],
                                   o.ok, file.id, <<>>, file.id, NULL,
                                   file.s3Key)
                                EXCEPT !.failed = o.failed]
    /\ UNCHANGED <<objects, nextId, nextTok>>

----------------------------------------------------------------------------
(* AwsS3FileService.getSignedUploadUrl *)

GetSignedUploadUrl ==
  \E name \in FileNames, at \in Locations :
    LET k == generateS3Key(s3File, nextTok, name, at.parentId, at.path)
    IN  /\ Request
        /\ IF k.ok
             THEN /\ nextId <= MaxId
                  /\ nextTok <= MaxTok
                  /\ s3File' = s3File \cup
                       {Row(nextId, name, MimeType, ops + 1, k.s3Key, NoResponse,
                            at.parentId, NoUpload, NoProgress)}
                  /\ nextId' = nextId + 1
                  /\ nextTok' = nextTok + 1
             ELSE UNCHANGED <<s3File, nextId, nextTok>>
        /\ last' = Last("getSignedUploadUrl",
                        [NoArg EXCEPT !.name = name, !.parentId = at.parentId,
                                      !.path = at.path],
                        k.ok, IF k.ok THEN nextId ELSE NULL, <<>>, NULL,
                        at.parentId, IF k.ok THEN k.s3Key ELSE <<>>)
        /\ UNCHANGED <<objects, uploads>>

----------------------------------------------------------------------------
(* AwsS3Service.getObjectsRecursively and                                  *)
(* AwsS3FileService.syncFilesFromS3ToDatabase                              *)

RECURSIVE SortKeys(_)
SortKeys(keys) ==
  IF keys = {} THEN <<>>
  ELSE LET k == CHOOSE x \in keys : \A y \in keys \ {x} : KeyLess(x, y)
       IN  <<k>> \o SortKeys(keys \ {k})

(* A truncated listing is asked for again with the same parameters (no     *)
(* continuation token), which returns the same truncated page: the call    *)
(* never returns unless a listing throws.  The return in the finally block *)
(* replaces a thrown error by the return of the keys collected so far.     *)
RECURSIVE getObjectsRecursivelyFrom(_, _, _)
getObjectsRecursivelyFrom(objs, failAt, n) ==
  LET listResponse == ListObjectsV2(objs, <<>>)
  IN  IF failAt = n + 1
        THEN [returns |-> TRUE, allKeys |-> <<>>, failed |-> n + 1]
      ELSE IF listResponse.Contents = {}
        THEN [returns |-> TRUE, allKeys |-> <<>>, failed |-> 0]
      ELSE IF listResponse.IsTruncated
        THEN IF failAt = 0
               THEN [returns |-> FALSE, allKeys |-> <<>>, failed |-> 0]
               ELSE LET keys == getObjectsRecursivelyFrom(objs, failAt, n + 1)
                    IN  [keys EXCEPT !.allKeys =
                           SortKeys(listResponse.Contents) \o keys.allKeys]
      ELSE [returns |-> TRUE, allKeys |-> SortKeys(listResponse.Contents),
            failed |-> 0]

getObjectsRecursively(objs, failAt) == getObjectsRecursivelyFrom(objs, failAt, 0)

SyncName(s3Key) ==
  IF EndsWith(s3Key, Slash)
    THEN Pop(Split(DropLast(s3Key), Slash))
    ELSE Pop(Split(s3Key, Slash))

SyncType(s3Key) ==
  IF EndsWith(s3Key, Slash) THEN FolderType ELSE Pop(Split(s3Key, Dot))

(* a parent key that lacks the slash folder keys end with *)
ParentKeyNoSlash(s3Key) ==
  LET parts == IF EndsWith(s3Key, Slash)
                 THEN Split(DropLast(s3Key), Slash)
                 ELSE Split(s3Key, Slash)
  IN  IF Len(parts) > 1 THEN Join(DropLast(parts), Slash) ELSE <<>>

(* step 4: the key of the parent of a key, <<>> when it has one segment *)
ParentKey(s3Key) ==
  LET parts == IF EndsWith(s3Key, Slash)
                 THEN Split(DropLast(s3Key), Slash)
                 ELSE Split(s3Key, Slash)
  IN  IF Len(parts) > 1 THEN Join(DropLast(parts), Slash) \o <<Slash>> ELSE <<>>

(* a linking that makes every row its own parent *)
LinkSelf(files, file) == [file EXCEPT !.parentId = file.id]

LinkParent(files, file) ==
  LET parentKey == ParentKey(file.s3Key)
      found == {g \in files : g.s3Key = parentKey}
  IN  IF parentKey # <<>> /\ found # {}
        THEN [file EXCEPT !.parentId =
                (CHOOSE g \in found : \A h \in found : h.id <= g.id).id]
        ELSE file

syncFilesFromS3ToDatabase(objs, allKeys, firstId) ==
  LET files == {Row(firstId + i - 1, SyncName(allKeys[i]), SyncType(allKeys[i]),
                    Len(objs[allKeys[i]]), allKeys[i], NoResponse, NULL,
                    NoUpload, NoProgress) : i \in 1..Len(allKeys)}
  IN  {LinkParent(files, f) : f \in files}

(* a count that sees no row *)
countNone(files) == 0

(* prisma.s3File.count() *)
count(files) == Cardinality(files)

Sync ==
  \E failAt \in Faults :
  /\ Request
  /\ IF count(s3File) > 0
       THEN /\ UNCHANGED <<s3File, nextId>>
            /\ last' = Last("sync", NoArg, FALSE, NULL, <<>>, NULL, NULL, <<>>)
       ELSE LET listing == getObjectsRecursively(objects, failAt)
            IN  IF ~listing.returns
                  THEN /\ UNCHANGED <<s3File, nextId>>
                       /\ last' = [Last("sync", NoArg, FALSE, NULL, <<>>, NULL,
                                        NULL, <<>>) EXCEPT !.diverged = TRUE,
                                                           !.listed = TRUE]
                  ELSE /\ nextId + Len(listing.allKeys) <= MaxId + 1
                       /\ s3File' = syncFilesFromS3ToDatabase(objects,
                                      listing.allKeys, nextId)
                       /\ nextId' = nextId + Len(listing.allKeys)
                       /\ last' = [Last("sync", NoArg, TRUE, NULL, <<>>, NULL,
                                        NULL, <<>>)
                                     EXCEPT !.listed = TRUE,
                                            !.failed = listing.failed]
  /\ UNCHANGED <<objects, uploads, nextTok>>

----------------------------------------------------------------------------

EmptyFn == [k \in {} |-> <<>>]

InitTable(files, id, objs, b, f) ==
  /\ flaky = f
  /\ s3File = files
  /\ objects = objs
  /\ uploads = [u \in {} |-> NoResponse]
  /\ nextId = id
  /\ nextTok = 1
  /\ ops = 0
  /\ budget = b
  /\ last = Last("init", NoArg, TRUE, NULL, <<>>, NULL, NULL, <<>>)
  /\ inflight = [p \in Procs |-> NoRequest]

InitState(objs, b, f) == InitTable({}, 1, objs, b, f)

(* a start on a store whose calls all succeed *)
InitWith(objs, b) == InitState(objs, b, FALSE)

(* The service starts on an empty bucket and an empty table *)
Init == InitWith(EmptyFn, MaxOps)

Next ==
  \/ CreateFolder
  \/ UploadFile
  \/ RenameFile
  \/ DeleteFile
  \/ CreateMultipartUpload
  \/ UploadPart
  \/ CompleteMultipartUpload
  \/ AbortMultipartUpload
  \/ GetSignedUploadUrl
  \/ Sync

Spec == Init /\ [][Next]_vars

(* The bucket is shared with other writers: the service may also start on  *)
(* a bucket that already holds objects (the case sync exists for).         *)
Bucket1 == [k \in { <<"a", "/">>, <<"a", "/", "a", ".", "t">> } |->
              IF EndsWith(k, Slash) THEN <<>> ELSE <<0>>]
Bucket2 == [k \in { <<"a", "/", "a", "/">>, <<"a">> } |->
              IF EndsWith(k, Slash) THEN <<>> ELSE <<0>>]
Bucket3 == [k \in { <<"a", "/">>, <<"a", "/", "a", "/">>,
                    <<"a", "/", "a", "/", "a", ".", "t">> } |->
              IF EndsWith(k, Slash) THEN <<>> ELSE <<0>>]
InitialBuckets == {EmptyFn, Bucket1, Bucket2, Bucket3}

InitSync == \E objs \in InitialBuckets : InitWith(objs, MaxOps)

SpecSync == InitSync /\ [][Next]_vars

(* The same starts on a store whose calls may fail *)
InitFaults == \E objs \in {Bucket1, Bucket3} : InitState(objs, MaxOps, TRUE)

SpecFaults == InitFaults /\ [][Next]_vars

(* Multipart uploads alone, with one more request per run *)
InitMultipart == InitWith(EmptyFn, MaxOps + 1)

NextMultipart ==
  \/ CreateFolder
  \/ CreateMultipartUpload
  \/ UploadPart
  \/ CompleteMultipartUpload
  \/ AbortMultipartUpload
  \/ DeleteFile

SpecMultipart == InitMultipart /\ [][NextMultipart]_vars

(* Uploads by callers that do not wait for one another *)
NextConcurrent ==
  \/ CreateFolder
  \/ UploadFileLookup
  \/ UploadFileWrite

SpecConcurrent == Init /\ [][NextConcurrent]_vars

(* getFilePathString on its own.  The table has no foreign key on parentId *)
(* and other writers share it: the walk may start from any table in which  *)
(* every row was made after its parent, whether or not the parent is still *)
(* there.  Every row is first called "a"; the keys play no part.           *)
PathRows(id) ==
  {Row(id, <<"a">>, FolderType, NoSize, <<"a">>, NoResponse, p, NoUpload,
       NoProgress) : p \in {NULL} \cup 1..(id - 1)}

Tables ==
  {t \in SUBSET (UNION {PathRows(id) : id \in 1..MaxId}) :
     \A f \in t : \A g \in t : f.id = g.id => f = g}

GetFilePathString ==
  \E fileId \in Ids \cup ({f.parentId : f \in s3File} \ {NULL}) :
    LET path == getFilePathString(s3File, fileId)
    IN  /\ Request
        /\ last' = [Last("getFilePathString", NoArg, path.ok, NULL, <<>>, NULL,
                         NULL, path.path)
                      EXCEPT !.arg = [NoArg EXCEPT !.fileId = fileId]]
        /\ UNCHANGED <<s3File, objects, uploads, nextId, nextTok>>

InitPath == \E t \in Tables : InitTable(t, MaxId + 1, EmptyFn, MaxOps, FALSE)

NextPath ==
  \/ GetFilePathString
  \/ RenameFile

SpecPath == InitPath /\ [][NextPath]_vars

----------------------------------------------------------------------------
(* Properties *)

(* the ids on the parentId chain above a row, walking at most fuel links *)
RECURSIVE AncestorIds(_, _, _)
AncestorIds(files, id, fuel) ==
  IF fuel = 0 \/ ~Exists(files, id) THEN {}
  ELSE LET p == RowOf(files, id).parentId
       IN  IF p = NULL THEN {} ELSE {p} \cup AncestorIds(files, p, fuel - 1)

Subtree(files, id) ==
  {f \in files : f.id = id \/ id \in AncestorIds(files, f.id, Cardinality(files))}

(* C1: after deleteFile(folderId) returns for a folder that has            *)
(* descendants, no object of the store has the folder's stored s3Key as a  *)
(* prefix, and the table holds neither the folder's row nor any row that   *)
(* was below it.                                                           *)
C1_DeleteFolderRemovesSubtree ==
  [][(/\ last'.op = "deleteFile"
      /\ last'.ok
      /\ Cardinality(Subtree(s3File, last'.arg.fileId)) > 1)
     => /\ \A k \in DOMAIN objects' : ~StartsWith(k, last'.key)
        /\ \A f \in Subtree(s3File, last'.arg.fileId) : ~Exists(s3File', f.id)]_vars

C1_Witness ==
  /\ last.op = "deleteFile"
  /\ last.ok
  /\ Cardinality(last.removed) > 1
  /\ Cardinality(last.dels) > 1

(* the rows a lookup of the last upload's name under the parent it         *)
(* resolved should find                                                    *)
SameNameUnderParent(files, l) ==
  {f \in files : f.name = l.arg.name /\ f.parentId = l.parent}

(* a row changed in type, size and s3Response at most *)
UpdatedInPlace(f, g) ==
  g = [f EXCEPT !.type = g.type, !.size = g.size, !.s3Response = g.s3Response]

(* C2: uploadFile with overwrite=true, when a row with the same name       *)
(* exists under the effective parent, writes the bytes to the s3Key of     *)
(* such a row and changes nothing in the table but the type, size and      *)
(* s3Response of that row: no row is created.                              *)
C2_OverwriteUpdatesNodeUnderParent ==
  [][(/\ last'.op = "uploadFile"
      /\ last'.ok
      /\ last'.arg.overwrite
      /\ SameNameUnderParent(s3File, last') # {})
     => \E f \in SameNameUnderParent(s3File, last') :
          /\ Len(last'.puts) = 1
          /\ last'.puts[1].Key = f.s3Key
          /\ \E g \in s3File' :
               /\ UpdatedInPlace(f, g)
               /\ s3File' \ {g} = s3File \ {f}]_vars

(* the key of a file called name under a parent, by the parent's path *)
KeyUnder(files, parentId, name) ==
  IF parentId = NULL THEN name
  ELSE getFilePathString(files, parentId).path \o <<Slash>> \o name

(* C3: uploadFile with overwrite=false, when a row with the same name      *)
(* exists under the effective parent, creates a row with a new id whose    *)
(* name is the disambiguated name, different from the name that was taken, *)
(* and whose key is the parent's path, a slash and that name.              *)
C3_NoOverwriteCreatesDisambiguatedNode ==
  [][(/\ last'.op = "uploadFile"
      /\ last'.ok
      /\ ~last'.arg.overwrite
      /\ SameNameUnderParent(s3File, last') # {})
     => \E g \in s3File' :
          /\ ~Exists(s3File, g.id)
          /\ g.id = last'.ret
          /\ g.name # last'.arg.name
          /\ g.s3Key = KeyUnder(s3File, last'.parent, g.name)]_vars

(* C4: uploadFile with overwrite=false writes to no key of the store that  *)
(* is the s3Key of a row the table held when the upload was asked for.     *)
C4_NoOverwriteLeavesExistingKeys ==
  [][(/\ last'.op = "uploadFile"
      /\ last'.ok
      /\ ~last'.arg.overwrite)
     => \A i \in 1..Len(last'.puts) :
          \A f \in s3File : f.s3Key # last'.puts[i].Key]_vars

(* C5: of two createFolder calls in a row with the same path and the same  *)
(* parent, the second returns the folder the first returned, creates no    *)
(* row and writes nothing to the store.                                    *)
C5_CreateFolderTwiceSameLeaf ==
  [][(/\ last.op = "createFolder"
      /\ last.ok
      /\ last'.op = "createFolder"
      /\ last'.ok
      /\ last'.arg.path = last.arg.path
      /\ last'.arg.parentId = last.arg.parentId)
     => /\ last'.ret = last.ret
        /\ s3File' = s3File
        /\ last'.puts = <<>>]_vars

(* a key without the slash it may end with *)
Unslashed(k) == IF EndsWith(k, Slash) THEN DropLast(k) ELSE k

(* a key with its last path segment stripped: what is left up to and       *)
(* including the last slash inside the key, <<>> when there is none        *)
StripLastSegment(k) ==
  LET u == Unslashed(k)
      cuts == {i \in 1..Len(u) : u[i] = Slash}
  IN  IF cuts = {} THEN <<>>
      ELSE SubSeq(u, 1, CHOOSE i \in cuts : \A j \in cuts : j <= i)

(* C6: a sync that returns on an empty table leaves exactly one row per    *)
(* key of the bucket; the parentId of a row is the id of the row whose key *)
(* is the row's own key with its last segment stripped when there is such  *)
(* a row, and is unset when no key of the bucket is that parent key.       *)
C6_SyncOneNodePerKeyLinked ==
  [][(last'.op = "sync" /\ last'.ok)
     => /\ {f.s3Key : f \in s3File'} = DOMAIN objects
        /\ Cardinality(s3File') = Cardinality(DOMAIN objects)
        /\ \A f \in s3File' :
             LET parents == {g \in s3File' : g.s3Key = StripLastSegment(f.s3Key)}
             IN  IF parents = {} THEN f.parentId = NULL
                 ELSE \E g \in parents : f.parentId = g.id]_vars

C6_Witness ==
  /\ last.op = "sync"
  /\ last.ok
  /\ Cardinality(s3File) = 2
  /\ \E f, g \in s3File : f.parentId = g.id /\ g.type = FolderType

(* C7: a sync asked for while the table holds a row fails, asks the store  *)
(* for no listing and leaves the table and the bucket as they were; so a   *)
(* sync that follows a sync which created rows fails.                      *)
C7_SyncOnNonEmptyIndexFails ==
  [][(last'.op = "sync" /\ s3File # {})
     => /\ ~last'.ok
        /\ ~last'.listed
        /\ ~last'.diverged
        /\ s3File' = s3File
        /\ objects' = objects]_vars

C7_Witness ==
  /\ last.op = "sync"
  /\ ~last.ok
  /\ ~last.listed
  /\ s3File # {}
  /\ \A f \in s3File : f.s3Key \in DOMAIN objects /\ f.s3Response = NoResponse

(* C8: a completeMultipartUpload the store accepts leaves the row of the   *)
(* upload with uploadProgress 100 and the store's completion response in   *)
(* s3Response, and the store was sent the caller's part list as it was.    *)
C8_CompleteSetsProgressAndForwardsParts ==
  [][(last'.op = "completeMultipartUpload" /\ last'.ok)
     => /\ last'.sent = last'.arg.parts
        /\ \E f \in s3File' :
             /\ f.id = last'.ret
             /\ f.uploadId = last'.arg.uploadId
             /\ f.uploadProgress = 100
             /\ f.s3Response = [Op |-> "complete", Key |-> f.s3Key,
                                ETag |-> Assemble(last'.arg.parts)]]_vars

C8_Witness ==
  /\ last.op = "completeMultipartUpload"
  /\ last.ok
  /\ Len(last.arg.parts) = 2
  /\ \E f \in s3File : f.id = last.ret /\ f.uploadProgress = 100

(* C9: no two rows of the table have the same s3Bucket and s3Key. *)
C9_BucketKeyUnique ==
  \A f, g \in s3File :
    (f.s3Bucket = g.s3Bucket /\ f.s3Key = g.s3Key) => f.id = g.id

(* following parentId from a row reaches a row without parent in at most   *)
(* fuel steps                                                              *)
RECURSIVE ReachesRoot(_, _, _)
ReachesRoot(files, id, fuel) ==
  /\ Exists(files, id)
  /\ \/ RowOf(files, id).parentId = NULL
     \/ fuel > 0 /\ ReachesRoot(files, RowOf(files, id).parentId, fuel - 1)

C11_FolderHasNoSize ==
  \A f \in s3File : f.type = FolderType => f.size = NoSize

(* C12: uploadFile given both a parentId and a path fails; it creates no   *)
(* folder, writes nothing to the store and leaves the table as it was.     *)
C12_BothParentIdAndPathFails ==
  [][(last'.op = "uploadFile" /\ last'.both)
     => /\ ~last'.ok
        /\ last'.puts = <<>>
        /\ s3File' = s3File
        /\ objects' = objects
        /\ nextId' = nextId]_vars

C12_Witness ==
  /\ last.op = "uploadFile"
  /\ last.both
  /\ ~last.ok
  /\ s3File # {}

(* the non-empty segments of a path *)
Segments(path) == {i \in 1..Len(Split(path, Slash)) : Len(Split(path, Slash)[i]) > 0}

(* C13: createFolder fails whenever the path has no non-empty segment: a   *)
(* createFolder that returns was given a path with a segment, and returns  *)
(* the id of a folder of the table.                                        *)
C13_CreateFolderNeedsSegment ==
  [][(last'.op = "createFolder" /\ last'.ok)
     => /\ Segments(last'.arg.path) # {}
        /\ \E f \in s3File' : f.id = last'.ret /\ f.type = FolderType]_vars

(* C14: rename changes the name of the renamed row and nothing else: its   *)
(* id, s3Bucket, s3Key and parentId, every other row and every object of   *)
(* the store are as they were.                                             *)
C14_RenameChangesNameOnly ==
  [][(last'.op = "renameFile" /\ last'.ok)
     => /\ objects' = objects
        /\ uploads' = uploads
        /\ \E f \in s3File :
             /\ f.id = last'.arg.fileId
             /\ s3File' = (s3File \ {f}) \cup {[f EXCEPT !.name = last'.arg.name]}]_vars

C14_Witness ==
  /\ last.op = "renameFile"
  /\ last.ok
  /\ \E f, g \in s3File :
       /\ f.id = last.arg.fileId
       /\ f.name = last.arg.name
       /\ f.s3Key # f.name
       /\ g.parentId = f.id
       /\ StartsWith(g.s3Key, f.s3Key \o <<Slash>>)

(* C15: deleteFile turns to the store before the table: when a listing or  *)
(* a batch delete of the store fails the request fails and no row has been *)
(* deleted, and rows are deleted only by a request whose store calls all   *)
(* returned.                                                               *)
C15_StoreDeletionBeforeIndexDeletion ==
  [][(last'.op = "deleteFile")
     => /\ (last'.failed # 0 => ~last'.ok /\ s3File' = s3File)
        /\ (s3File' # s3File => last'.failed = 0 /\ last'.ok)]_vars

C15_Witness ==
  /\ last.op = "deleteFile"
  /\ last.failed = 3
  /\ last.dels # {}
  /\ s3File # {}

(* C16: a failure of the store is not swallowed: when a listing fails      *)
(* during sync, sync fails and inserts no row.                             *)
C16_ListingFailureFailsSync ==
  [][(last'.op = "sync" /\ last'.failed # 0)
     => /\ ~last'.ok
        /\ s3File' = s3File]_vars

(* C17: the listing sync asks for ends and yields every object of the      *)
(* bucket exactly once, also when it spans more than one page.             *)
C17_ListingTerminatesAndIsComplete ==
  [][(last'.op = "sync" /\ last'.listed /\ last'.failed = 0)
     => /\ ~last'.diverged
        /\ last'.ok
        /\ {f.s3Key : f \in s3File'} = DOMAIN objects
        /\ Cardinality(s3File') = Cardinality(DOMAIN objects)]_vars

----------------------------------------------------------------------------
(* C18: createMultipartUpload asks the store for an upload id first and,   *)
(* only if that succeeds, creates exactly one row carrying that upload id, *)
(* uploadProgress 0 and the key that was sent to the store; if the store   *)
(* call fails, no row is created.                                          *)
C18_StoreUploadBeforeRow ==
  [][(last'.op = "createMultipartUpload" /\ ops' = ops + 1)
     => /\ last'.failed # 0 => ~last'.ok
        /\ IF last'.ok
             THEN \E f \in s3File' \ s3File :
                    /\ s3File' = s3File \cup {f}
                    /\ f.id = last'.ret
                    /\ DOMAIN uploads' = (DOMAIN uploads) \cup {f.uploadId}
                    /\ f.uploadId \notin DOMAIN uploads
                    /\ f.uploadProgress = 0
                    /\ f.s3Key = uploads'[f.uploadId].Key
                    /\ f.s3Key = last'.key
                    /\ uploads'[f.uploadId].Status = "pending"
             ELSE s3File' = s3File /\ uploads' = uploads]_vars

C18_Witness ==
  /\ flaky
  /\ last.op = "createMultipartUpload"
  /\ last.ok
  /\ \E f \in s3File :
       /\ f.id = last.ret
       /\ f.uploadProgress = 0
       /\ f.uploadId \in DOMAIN uploads
       /\ uploads[f.uploadId].Key = f.s3Key

(* C19: a successful uploadPart forwards the chunk to the store under the  *)
(* bucket and key of the row that holds the upload id, returns the store's *)
(* ETag paired with exactly the supplied part number, and leaves the row's *)
(* uploadProgress equal to the supplied hint; part numbers are accepted in *)
(* any order and with gaps.                                                *)
C19_UploadPartForwardsAndRecordsHint ==
  [][(last'.op = "uploadPart" /\ ops' = ops + 1)
     => LET a == last'.arg
            file == RowOfUpload(s3File, a.uploadId)
        IN  /\ Pending(uploads, a.uploadId) => last'.ok
            /\ last'.ok
                 => /\ Len(last'.sent) = 1
                    /\ last'.sent[1].Bucket = file.s3Bucket
                    /\ last'.sent[1].Key = file.s3Key
                    /\ last'.sent[1].UploadId = a.uploadId
                    /\ last'.sent[1].PartNumber = a.partNumber
                    /\ uploads'[a.uploadId].Parts[a.partNumber]
                         = last'.sent[1].Body
                    /\ last'.reply = Part(last'.sent[1].Body, a.partNumber)
                    /\ RowOfUpload(s3File', a.uploadId).uploadProgress
                         = a.uploadProgress
                    /\ s3File' = (s3File \ {file}) \cup
                         {[file EXCEPT !.uploadProgress = a.uploadProgress]}]_vars

C19_Witness ==
  /\ last.op = "uploadPart"
  /\ last.ok
  /\ last.arg.partNumber = 2
  /\ last.arg.uploadProgress = 100
  /\ DOMAIN uploads[last.arg.uploadId].Parts = {2}
  /\ RowOfUpload(s3File, last.arg.uploadId).uploadProgress = 100

(* C20: abortMultipartUpload changes the store's upload state only: the    *)
(* row of the upload still exists afterwards with every field unchanged,   *)
(* and no other row changes.                                               *)
C20_AbortLeavesIndexUnchanged ==
  [][(last'.op = "abortMultipartUpload" /\ ops' = ops + 1)
     => /\ s3File' = s3File
        /\ objects' = objects
        /\ \E f \in s3File' :
             /\ f.id = last'.existing
             /\ f.uploadId \in DOMAIN uploads'
             /\ last'.ok => /\ uploads[f.uploadId].Status = "pending"
                            /\ uploads'[f.uploadId].Status = "aborted"]_vars

C20_Witness ==
  /\ last.op = "abortMultipartUpload"
  /\ last.ok
  /\ \E f \in s3File :
       /\ f.id = last.existing
       /\ f.uploadProgress = 50
       /\ uploads[f.uploadId].Status = "aborted"
       /\ uploads[f.uploadId].Parts # <<>>

(* C21: a completeMultipartUpload the store accepts leaves the upload id   *)
(* of the row as it was (as it leaves the upload id of every other row):   *)
(* a lookup by that upload id still finds the row.                         *)
C21_CompleteKeepsUploadId ==
  [][(last'.op = "completeMultipartUpload" /\ last'.ok)
     => /\ HasUpload(s3File', last'.arg.uploadId)
        /\ RowOfUpload(s3File', last'.arg.uploadId).id
             = RowOfUpload(s3File, last'.arg.uploadId).id
        /\ \A f \in s3File :
             \E g \in s3File' : g.id = f.id /\ g.uploadId = f.uploadId]_vars

C21_Witness ==
  /\ last.op = "completeMultipartUpload"
  /\ last.ok
  /\ uploads[last.arg.uploadId].Status = "completed"
  /\ HasUpload(s3File, last.arg.uploadId)
  /\ RowOfUpload(s3File, last.arg.uploadId).uploadProgress = 100

(* C22: every row with an upload id is a file placeholder whose multipart  *)
(* upload is still pending: neither completed nor aborted.                 *)
C22_UploadIdMeansPending ==
  \A f \in s3File :
    f.uploadId # NoUpload
      => /\ f.type # FolderType
         /\ Pending(uploads, f.uploadId)

(* C22 as amended: every row with an upload id is a file row that          *)
(* createMultipartUpload made, and its upload id is one the store handed   *)
(* out for the key of the row; the upload is pending, completed or aborted *)
C22_UploadIdIsOfTheRowsKey ==
  \A f \in s3File :
    f.uploadId # NoUpload
      => /\ f.type # FolderType
         /\ f.uploadId \in DOMAIN uploads
         /\ uploads[f.uploadId].Key = f.s3Key
         /\ uploads[f.uploadId].Status \in {"pending", "completed", "aborted"}
         /\ \A g \in s3File : g.uploadId = f.uploadId => g = f

C22_Witness ==
  \E f \in s3File :
    /\ f.uploadId # NoUpload
    /\ uploads[f.uploadId].Status = "completed"
    /\ f.uploadProgress = 100
    /\ uploads[f.uploadId].Key = f.s3Key

(* C23: the uploadProgress of every row that has one lies in 0..100,       *)
(* whatever progress callers pass to uploadPart.                           *)
C23_ProgressInRange ==
  \A f \in s3File :
    f.uploadProgress # NoProgress => f.uploadProgress \in 0..100

(* the chains of rows from a root down to a row, each the parent of the next *)
Chains(files, fileId) ==
  {c \in UNION {[1..n -> {f.id : f \in files}] : n \in 1..Cardinality(files)} :
     /\ c[Len(c)] = fileId
     /\ RowOf(files, c[1]).parentId = NULL
     /\ \A i \in 1..(Len(c) - 1) : RowOf(files, c[i + 1]).parentId = c[i]}

(* C24: getFilePathString returns the names of the chain of ancestors of   *)
(* the row, from the root to the row itself, joined with "/", as the names *)
(* are now; it throws when the row or a row of the chain is missing.       *)
C24_PathIsRootToLeafNames ==
  [][(last'.op = "getFilePathString")
     => LET chains == Chains(s3File, last'.arg.fileId)
        IN  IF chains = {}
              THEN ~last'.ok
              ELSE /\ last'.ok
                   /\ \A c \in chains :
                        last'.key = Join([i \in 1..Len(c) |->
                                            RowOf(s3File, c[i]).name], Slash)]_vars

C24_Witness ==
  /\ last.op = "getFilePathString"
  /\ last.ok
  /\ last.key = <<"b", "/", "a", "/", "b">>

(* C25: an uploadFile that finds no row of the same name under the parent  *)
(* it resolved stores the object at the parent's path, a slash and the     *)
(* chosen name; a request that leaves useOriginalName unspecified (every   *)
(* request of the service: uploadFile has no such parameter) has a         *)
(* generated token followed by the extension of the name as chosen name.   *)
C25_KeyOfNewNode ==
  [][(/\ last'.op = "uploadFile"
      /\ last'.ok
      /\ Len(last'.arg.name) > 0
      /\ SameNameUnderParent(s3File, last') = {})
     => \E t \in 1..Len(Tokens) :
          last'.key = KeyUnder(s3File', last'.parent,
                               <<Tokens[t]>> \o extname(last'.arg.name))]_vars

(* C26: an uploadFile given a path has the folders of the path resolved or *)
(* created first; the row it creates or overwrites has the deepest folder  *)
(* of the path as its parent, and its key lies under that folder's path.   *)
C26_UploadUnderPath ==
  [][(/\ last'.op = "uploadFile"
      /\ last'.ok
      /\ Len(last'.arg.path) > 0)
     => /\ last'.parent # NULL
        /\ \E d \in s3File' :
             /\ d.id = last'.parent
             /\ d.type = FolderType
             /\ d.name = Pop(Split(TrimSlashes(last'.arg.path), Slash))
             /\ \E f \in s3File' :
                  /\ f.id = last'.ret
                  /\ f.parentId = d.id
                  /\ f.s3Key = last'.key
                  /\ StartsWith(f.s3Key,
                                getFilePathString(s3File', d.id).path
                                  \o <<Slash>>)]_vars

(* C27: uploadFile requests for the same name under the same parent are    *)
(* not kept apart.  A request whose lookup found no row goes through with  *)
(* what it found, also when another request has created a row of that name *)
(* under that parent at the same key in the meantime: it writes the same   *)
(* key of the store and creates a second row with the same s3Bucket and    *)
(* s3Key.                                                                  *)
C27_StaleLookupWritesSameKey ==
  [][\A p \in Procs :
       (/\ inflight[p].stage = "found"
        /\ inflight'[p].stage = "idle"
        /\ inflight[p].existing = NULL
        /\ \E g \in s3File :
             /\ g.name = inflight[p].name
             /\ g.parentId = inflight[p].parentId
             /\ g.s3Key = KeyUnder(s3File, g.parentId, g.name))
       => /\ last'.ok
          /\ last'.key = KeyUnder(s3File, inflight[p].parentId, inflight[p].name)
          /\ objects'[last'.key] = inflight[p].body
          /\ \E f \in s3File' \ s3File :
               \E g \in s3File :
                 /\ f.id = last'.ret
                 /\ g.id # f.id
                 /\ g.s3Bucket = f.s3Bucket
                 /\ g.s3Key = f.s3Key
                 /\ g.name = f.name
                 /\ g.parentId = f.parentId]_vars

C27_Witness ==
  /\ last.op = "uploadFile"
  /\ last.ok
  /\ \A p \in Procs : inflight[p].stage = "idle"
  /\ \E f \in s3File :
       \E g \in s3File :
         /\ f.id = last.ret
         /\ g.id # f.id
         /\ f.type = MimeType
         /\ g.type = MimeType
         /\ g.s3Bucket = f.s3Bucket
         /\ g.s3Key = f.s3Key
         /\ g.name = f.name
         /\ g.parentId = f.parentId
         /\ objects[f.s3Key] = f.s3Response.ETag
         /\ objects[g.s3Key] # g.s3Response.ETag

(* C28: when every call of the store succeeds, deleteObjectRecursively     *)
(* returns and leaves no object whose key starts with the given key,       *)
(* however many pages the objects with that prefix fill; the objects it    *)
(* deletes are those with the prefix.                                      *)
C28_PrefixDeletionIsComplete ==
  [][(last'.op = "deleteFile" /\ last'.failed = 0)
     => /\ last'.ok
        /\ \A k \in DOMAIN objects' : ~StartsWith(k, last'.key)
        /\ last'.dels = {k \in DOMAIN objects : StartsWith(k, last'.key)}]_vars

C28_Witness ==
  /\ last.op = "deleteFile"
  /\ last.ok
  /\ Cardinality(last.dels) > PageSize
  /\ \A k \in DOMAIN objects : ~StartsWith(k, last.key)

(* the rows a request added are folders that createFolder made, and it     *)
(* changed no row                                                          *)
OnlyFoldersAdded(before, after) ==
  /\ before \subseteq after
  /\ \A f \in after \ before :
       /\ f.type = FolderType
       /\ f.s3Response = PutResponse(f.s3Key \o <<Slash>>, <<>>)

(* C29: uploadFile writes to the store before it writes to the index and   *)
(* undoes nothing.  When the store write fails, no file row is created or  *)
(* updated and the object is not written; when the store write succeeds    *)
(* and the index write fails, the object is in the store and no row refers *)
(* to the new bytes; when both succeed, the row refers to the bytes.       *)
C29_StoreWriteBeforeIndexWrite ==
  [][(last'.op = "uploadFile" /\ ops' = ops + 1)
     => LET body == Payload(ops')
            key == last'.key
        IN  /\ last'.failed = 1
                 => /\ ~last'.ok
                    /\ OnlyFoldersAdded(s3File, s3File')
                    /\ \A k \in DOMAIN objects' : objects'[k] # body
            /\ last'.failed = 2
                 => /\ ~last'.ok
                    /\ OnlyFoldersAdded(s3File, s3File')
                    /\ key \in DOMAIN objects'
                    /\ objects'[key] = body
                    /\ \A f \in s3File' : f.s3Response # PutResponse(key, body)
            /\ last'.ok
                 => /\ last'.failed = 0
                    /\ objects'[key] = body
                    /\ \E f \in s3File' :
                         /\ f.id = last'.ret
                         /\ f.s3Response = PutResponse(key, body)]_vars

C29_Witness ==
  /\ last.op = "uploadFile"
  /\ last.failed = 2
  /\ ~last.ok
  /\ last.key \in DOMAIN objects
  /\ objects[last.key] = Payload(ops)
  /\ \E f \in s3File :
       /\ f.s3Key = last.key
       /\ f.s3Response.ETag # objects[last.key]

(* the key of the object the store holds for a row *)
ObjectKey(f) == IF f.type = FolderType THEN f.s3Key \o <<Slash>> ELSE f.s3Key

(* C30: deleteFile of a row deletes from the store only objects of the     *)
(* row's subtree: the object of every row that is left (neither the row    *)
(* nor one of its descendants) is in the store afterwards if it was        *)
(* before, such as the object of a sibling "a.t" next to "a".              *)
C30_DeleteLeavesOtherObjects ==
  [][(last'.op = "deleteFile" /\ last'.ok)
     => \A f \in s3File' :
          ObjectKey(f) \in DOMAIN objects => ObjectKey(f) \in DOMAIN objects']_vars

(* the upload of a row has been completed at the store *)
Completed(f) ==
  /\ f.uploadId # NoUpload
  /\ f.uploadId \in DOMAIN uploads
  /\ uploads[f.uploadId].Status = "completed"

(* C34: once completeMultipartUpload has succeeded for a row, the row's    *)
(* uploadProgress stays 100 for as long as the row exists, whatever is     *)
(* called later (a further uploadPart or abortMultipartUpload included).   *)
C34_ProgressStaysComplete ==
  [][\A f \in s3File :
       (Completed(f) /\ f.uploadProgress = 100 /\ Exists(s3File', f.id))
         => RowOf(s3File', f.id).uploadProgress = 100]_vars

(* C35: an uploadPart whose store call fails leaves the uploadProgress of  *)
(* the row as it was before the call.                                      *)
C35_RejectedPartKeepsProgress ==
  [][(last'.op = "uploadPart" /\ ~last'.ok)
     => \A f \in s3File :
          f.id = last'.ret
            => RowOf(s3File', f.id).uploadProgress = f.uploadProgress]_vars

(* C36: a row made by createMultipartUpload has uploadProgress 100 only    *)
(* when the store has completed the upload of its uploadId.                *)
C36_FullProgressMeansCompleted ==
  \A f \in s3File :
    (f.uploadId # NoUpload /\ f.uploadProgress = 100) => Completed(f)

(* the folder names of a path: its segments between slashes that are not empty *)
NonEmptySegments(path) == SelectSeq(Split(path, Slash), LAMBDA s : Len(s) > 0)

(* C33: a createFolder without parentId that returns a row returns the row *)
(* whose path string is the non-empty segments of the path joined with     *)
(* "/": the first segment is looked up among the root folders only.        *)
C33_CreateFolderReturnsThePath ==
  [][(/\ last'.op = "createFolder"
      /\ last'.ok
      /\ last'.arg.parentId = NULL
      /\ last'.ret # NULL)
     => getFilePathString(s3File', last'.ret)
          = [ok |-> TRUE,
             path |-> Join(NonEmptySegments(last'.arg.path), Slash)]]_vars

(* C38: the row made by createMultipartUpload or getSignedUploadUrl for a  *)
(* path (and no parentId) is a child of the folder at that path: its       *)
(* parentId is a folder row whose path string is the path's folder names   *)
(* joined with "/", so a row keyed below a path is not a root row.         *)
C38_PlaceholderUnderPath ==
  [][(/\ last'.op \in {"createMultipartUpload", "getSignedUploadUrl"}
      /\ last'.ok
      /\ last'.arg.parentId = NULL
      /\ NonEmptySegments(last'.arg.path) # <<>>)
     => LET f == RowOf(s3File', last'.ret)
        IN  /\ f.parentId # NULL
            /\ Exists(s3File', f.parentId)
            /\ RowOf(s3File', f.parentId).type = FolderType
            /\ getFilePathString(s3File', f.parentId)
                 = [ok |-> TRUE,
                    path |-> Join(NonEmptySegments(last'.arg.path), Slash)]]_vars

(* Folders made, files uploaded, rows renamed and rows deleted, four       *)
(* requests deep                                                           *)
InitRename == InitWith(EmptyFn, MaxOps + 1)

NextRename ==
  \/ CreateFolder
  \/ UploadFile
  \/ RenameFile
  \/ DeleteFile

SpecRename == InitRename /\ [][NextRename]_vars

(* C31: after a deleteFile of a folder that completes without error the    *)
(* store holds no object of a row the call deleted, whatever was created,  *)
(* uploaded and renamed before (a folder renamed before files were         *)
(* uploaded into it included).                                             *)
C31_DeletedRowsLeaveNoObject ==
  [][(/\ last'.op = "deleteFile"
      /\ last'.ok
      /\ Exists(s3File, last'.arg.fileId)
      /\ RowOf(s3File, last'.arg.fileId).type = FolderType)
     => \A f \in s3File \ s3File' : ObjectKey(f) \notin DOMAIN objects']_vars

----------------------------------------------------------------------------
(* createFolder step by step: each await of the loop body is a step of its *)
(* own, so that the steps of two requests (and whole deleteFile requests)  *)
(* interleave. A request in flight remembers the folder names still to     *)
(* resolve (the first is the one in hand), the parent reached so far, the  *)
(* key worked out for the folder in hand and the objects written.          *)

FolderRequest(stage, path, parentId0, names, parentId, s3Key, puts) ==
  [stage |-> stage, path |-> path, parentId0 |-> parentId0, names |-> names,
   parentId |-> parentId, s3Key |-> s3Key, puts |-> puts]

(* the folder in hand is settled as row id: on to the next name, or return *)
FolderSettled(p, id, puts) ==
  LET r == inflight[p]
  IN  IF Len(r.names) = 1
        THEN /\ inflight' = [inflight EXCEPT ![p] = NoRequest]
             /\ last' = Last("createFolder",
                             [NoArg EXCEPT !.path = r.path,
                                           !.parentId = r.parentId0],
                             TRUE, id, puts, NULL, r.parentId0, <<>>)
        ELSE /\ inflight' = [inflight EXCEPT ![p] =
                               FolderRequest("folderLookup", r.path, r.parentId0,
                                             Tail(r.names), id, <<>>, puts)]
             /\ last' = last

(* the call, up to the first await: the path is trimmed and split *)
CreateFolderCall ==
  \E p \in Procs, path \in FolderPaths, parentId \in {NULL} \cup Ids :
    LET names == NonEmptySegments(TrimSlashes(path))
    IN  /\ inflight[p].stage = "idle"
        /\ ops < budget
        /\ ops' = ops + 1
        /\ IF names = <<>>
             THEN /\ last' = Last("createFolder",
                                  [NoArg EXCEPT !.path = path,
                                                !.parentId = parentId],
                                  TRUE, parentId, <<>>, NULL, parentId, <<>>)
                  /\ inflight' = inflight
             ELSE /\ inflight' = [inflight EXCEPT ![p] =
                                    FolderRequest("folderLookup", path, parentId,
                                                  names, parentId, <<>>, <<>>)]
                  /\ last' = last
        /\ UNCHANGED <<s3File, objects, uploads, nextId, nextTok, budget, flaky>>

(* await prisma.s3File.findFirst({name, type: 'folder', parentId}) *)
CreateFolderLookup ==
  \E p \in Procs :
    LET r == inflight[p]
        existingFolder ==
          {f \in s3File : /\ f.name = Head(r.names)
                          /\ f.type = FolderType
                          /\ (r.parentId = NULL \/ f.parentId = r.parentId)}
    IN  /\ r.stage = "folderLookup"
        /\ IF existingFolder # {}
             THEN \E f \in existingFolder : FolderSettled(p, f.id, r.puts)
             ELSE /\ inflight' = [inflight EXCEPT ![p] =
                                    IF r.parentId # NULL
                                      THEN [r EXCEPT !.stage = "folderKey"]
                                      ELSE [r EXCEPT !.stage = "folderPut",
                                                     !.s3Key = Head(r.names)]]
                  /\ last' = last
        /\ UNCHANGED <<s3File, objects, uploads, nextId, nextTok, ops, budget,
                       flaky>>

(* await this.getFilePathString(parentId), for a folder under a parent *)
CreateFolderKey ==
  \E p \in Procs :
    LET r == inflight[p]
        up == getFilePathString(s3File, r.parentId)
    IN  /\ r.stage = "folderKey"
        /\ IF up.ok
             THEN /\ inflight' = [inflight EXCEPT ![p] =
                                    [r EXCEPT !.stage = "folderPut",
                                              !.s3Key = up.path \o <<Slash>>
                                                          \o Head(r.names)]]
                  /\ last' = last
             ELSE /\ inflight' = [inflight EXCEPT ![p] = NoRequest]
                  /\ last' = Last("createFolder", NoArg, FALSE, NULL, r.puts,
                                  NULL, NULL, <<>>)
        /\ UNCHANGED <<s3File, objects, uploads, nextId, nextTok, ops, budget,
                       flaky>>

(* await this.s3.putObject({key: s3Key + '/'}) *)
CreateFolderPut ==
  \E p \in Procs :
    LET r == inflight[p]
        key == r.s3Key \o <<Slash>>
    IN  /\ r.stage = "folderPut"
        /\ objects' = PutObject(objects, key, <<>>)
        /\ inflight' = [inflight EXCEPT ![p] =
                          [r EXCEPT !.stage = "folderCreate",
                                    !.puts = Append(@, [Key |-> key,
                                                        Body |-> <<>>])]]
        /\ UNCHANGED <<s3File, uploads, nextId, nextTok, ops, budget, last,
                       flaky>>

(* await this.prisma.s3File.create(...) *)
CreateFolderCreate ==
  \E p \in Procs :
    LET r == inflight[p]
        folder == Row(nextId, Head(r.names), FolderType, NoSize, r.s3Key,
                      PutResponse(r.s3Key \o <<Slash>>, <<>>),
                      r.parentId, NoUpload, NoProgress)
    IN  /\ r.stage = "folderCreate"
        /\ nextId <= MaxId
        /\ s3File' = s3File \cup {folder}
        /\ nextId' = nextId + 1
        /\ FolderSettled(p, folder.id, r.puts)
        /\ UNCHANGED <<objects, uploads, nextTok, ops, budget, flaky>>

NextFolders ==
  \/ CreateFolderCall
  \/ CreateFolderLookup
  \/ CreateFolderKey
  \/ CreateFolderPut
  \/ CreateFolderCreate
  \/ DeleteFile

SpecFolders == Init /\ [][NextFolders]_vars

(* C37: two createFolder calls for the same path and parent, running at    *)
(* the same time, leave no two folder rows of the same name under the same *)
(* parent, however their lookups, store writes and row creations           *)
(* interleave.                                                             *)
C37_NoTwinFolders ==
  \A f, g \in s3File :
    (/\ f.type = FolderType
     /\ g.type = FolderType
     /\ f.name = g.name
     /\ f.parentId = g.parentId)
      => f = g

(* C32: every row's parentId that is not null is the id of a row of the    *)
(* table, in every state, the states between the steps of a createFolder   *)
(* that a deleteFile of the parent folder overtakes included.              *)
C32_ParentExists ==
  \A f \in s3File : f.parentId # NULL => Exists(s3File, f.parentId)

----------------------------------------------------------------------------
(* The round trip through the store: folders are made and files uploaded   *)
(* without error and without meeting a row of the same name, then the      *)
(* table is emptied and syncFilesFromS3ToDatabase builds it again from the *)
(* keys of the bucket.                                                     *)

RoundTripDone == last.op = "emptyAndSync"

CreateFolderOk == ~RoundTripDone /\ CreateFolder /\ last'.ok

UploadFileFresh ==
  ~RoundTripDone /\ UploadFile /\ last'.ok /\ last'.existing = NULL

(* the rows are deleted, then sync runs: its count() sees an empty table *)
EmptyAndSync ==
  /\ ~RoundTripDone
  /\ Request
  /\ LET emptied == {}
         listing == getObjectsRecursively(objects, 0)
     IN  IF count(emptied) > 0 \/ ~listing.returns
           THEN /\ s3File' = emptied
                /\ nextId' = nextId
                /\ last' = [Last("emptyAndSync", NoArg, FALSE, NULL, <<>>, NULL,
                                 NULL, <<>>)
                              EXCEPT !.diverged = ~listing.returns,
                                     !.listed = TRUE]
           ELSE /\ s3File' = syncFilesFromS3ToDatabase(objects, listing.allKeys,
                                                       nextId)
                /\ nextId' = nextId + Len(listing.allKeys)
                /\ last' = [Last("emptyAndSync", NoArg, TRUE, NULL, <<>>, NULL,
                                 NULL, <<>>)
                              EXCEPT !.listed = TRUE]
  /\ UNCHANGED <<objects, uploads, nextTok>>

NextRoundTrip ==
  \/ CreateFolderOk
  \/ UploadFileFresh
  \/ EmptyAndSync

SpecRoundTrip == InitRename /\ [][NextRoundTrip]_vars

(* the tree of a table: per row its path of names from the root, whether   *)
(* it is a folder, and the path of names of its parent (none at the root)  *)
Tree(files) ==
  {[path |-> getFilePathString(files, f.id),
    folder |-> f.type = FolderType,
    parent |-> IF f.parentId = NULL
                 THEN [ok |-> TRUE, path |-> <<>>]
                 ELSE getFilePathString(files, f.parentId)] : f \in files}

(* C39: after folders were made and files uploaded on an empty bucket and  *)
(* table, all without error, name collision or rename, emptying the table  *)
(* and running sync gives back the same tree: the same rows by path of     *)
(* names, folders as folders and files as files, under the same parents.   *)
C39_RoundTrip ==
  [][(last'.op = "emptyAndSync")
     => /\ last'.ok
        /\ Tree(s3File') = Tree(s3File)]_vars

====
